---- MODULE Spec2Model ----
(***************************************************************************)
(* Model of countdowntimer_model.models.CountdownTimer: the pausable       *)
(* countdown timer's fields, its save() recalculation and its time         *)
(* queries.                                                                *)
(*                                                                         *)
(* Time is counted in whole seconds.  A timedelta is an integer number of  *)
(* seconds.  An aware datetime is a record [none, wall, off]: its wall     *)
(* clock reading and the UTC offset of its tzinfo; the instant it denotes  *)
(* is wall - off.  None is the record with none = TRUE.                    *)
(* One call of save() or of a query reads the clock at one instant: all    *)
(* the readings of utcnow() inside one call return the same second.        *)
(***************************************************************************)
EXTENDS Integers, FiniteSets, Sequences, TLC

\* ---------------------------------------------------------------- bounds
ShortDuration == 10
LongDuration == 60
OffsetMinutes == 5
TickStep == 300
MaxClock == 1200
TzOffset == 32400
TenantSkew == 120
HourAndHalf == 90
DayAndHours == 1530
MaxMinuteTicks == 2
MaxHourTicks == 1
MaxDayTicks == 1

\* ------------------------------------------------------------- constants
PAUSED == 1
RUNNING == 2
SecondsPerMinute == 60
SecondsPerDay == 86400

States == {PAUSED, RUNNING}
Durations == {0, ShortDuration, LongDuration}
MinuteDurations == {ShortDuration, HourAndHalf, DayAndHours}
Offsets == {0, OffsetMinutes}
NoTimezone == ""
SampleTimezone == "Asia/Tokyo"
Timezones == {NoTimezone, SampleTimezone}
Tenants == {"absent", "raises", "synced", "skewed"}

VARIABLES
    timer,    \* the CountdownTimer instance: one record field per attribute
    clock,    \* the built-in clock: the UTC instant datetime.utcnow() returns
    tenant,   \* what self.tenant.aware_now_dt() does for the owning object
    ret,      \* the last step taken and, for a call, what it returned or raised
    hist      \* observer: what an outside stopwatch knows about the timer

vars == <<timer, clock, tenant, ret, hist>>

\* ------------------------------------------------- datetime and timedelta
NoneDT == [none |-> TRUE, wall |-> 0, off |-> 0]
DT(wall, off) == [none |-> FALSE, wall |-> wall, off |-> off]
Inst(d) == d.wall - d.off
AddTD(d, td) == [d EXCEPT !.wall = @ + td]
SubDT(a, b) == Inst(a) - Inst(b)
GT(a, b) == Inst(a) > Inst(b)
Minutes(m) == m * SecondsPerMinute

Ok(v) == [exc |-> "", val |-> v]
Raise(e) == [exc |-> e, val |-> 0]

UtcOffset(tz) == IF tz = SampleTimezone THEN TzOffset ELSE 0
Astimezone(d, tz) == DT(Inst(d) + UtcOffset(tz), UtcOffset(tz))

\* ------------------------------------------------------------ the object
New(d, st, o, tz) ==
    [duration_in_minutes |-> d,
     state |-> st,
     timezone_override |-> tz,
     start_date_offset_in_minutes |-> o,
     paused_at |-> NoneDT,
     cumulative_pause_duration |-> 0,
     original_start_at |-> NoneDT,
     original_end_at |-> NoneDT,
     modified_start_at |-> NoneDT,
     modified_end_at |-> NoneDT,
     original_duration_in_minutes |-> d]

now_dt(self, clk) ==
    IF self.timezone_override # NoTimezone
    THEN Astimezone(DT(clk, 0), self.timezone_override)
    ELSE DT(clk, 0)


\* Mutant of pause_delta: measures from the start of the countdown.
pause_delta_since_start(self, clk) ==
    IF ~self.paused_at.none
    THEN SubDT(now_dt(self, clk), self.original_start_at)
    ELSE 0


\* Mutant of pause_delta: the operands of the subtraction are exchanged.
pause_delta_backwards(self, clk) ==
    IF ~self.paused_at.none
    THEN SubDT(self.paused_at, now_dt(self, clk))
    ELSE 0

pause_delta(self, clk) ==
    IF ~self.paused_at.none
    THEN SubDT(now_dt(self, clk), self.paused_at)
    ELSE 0

\* ---------------------------------------------------------------- save()

\* Mutant of save_reset: a new duration keeps the pause that was accumulated.
save_reset_keeps_pause(self) ==
    IF self.duration_in_minutes # self.original_duration_in_minutes
    THEN [self EXCEPT !.original_start_at = NoneDT, !.paused_at = NoneDT]
    ELSE self

save_reset(self) ==
    IF self.duration_in_minutes # self.original_duration_in_minutes
    THEN [self EXCEPT !.original_start_at = NoneDT,
                      !.paused_at = NoneDT,
                      !.cumulative_pause_duration = 0]
    ELSE self


\* Mutant of save_initial: the end is derived from the remembered duration.
save_initial_with_remembered_duration(self, now) ==
    IF self.original_start_at.none
    THEN LET start == AddTD(now, Minutes(self.start_date_offset_in_minutes))
         IN [self EXCEPT !.original_start_at = start,
                         !.original_end_at =
                            AddTD(start, Minutes(self.original_duration_in_minutes))]
    ELSE self


\* Mutant of save_initial: every save() computes the original pair anew.
save_initial_always(self, now) ==
    LET start == AddTD(now, Minutes(self.start_date_offset_in_minutes))
    IN [self EXCEPT !.original_start_at = start,
                    !.original_end_at = AddTD(start, Minutes(self.duration_in_minutes))]

\* Mutant of save_initial: the start offset is left out.
save_initial_without_offset(self, now) ==
    IF self.original_start_at.none
    THEN [self EXCEPT !.original_start_at = now,
                      !.original_end_at = AddTD(now, Minutes(self.duration_in_minutes))]
    ELSE self

save_initial(self, now) ==
    IF self.original_start_at.none
    THEN LET start == AddTD(now, Minutes(self.start_date_offset_in_minutes))
         IN [self EXCEPT !.original_start_at = start,
                         !.original_end_at = AddTD(start, Minutes(self.duration_in_minutes))]
    ELSE self


\* Mutant of save_transition: every save() of a paused timer stamps paused_at.
save_transition_restamps(self, now, clk) ==
    IF self.state = PAUSED
    THEN [self EXCEPT !.paused_at = now]
    ELSE IF ~self.paused_at.none
         THEN [self EXCEPT !.cumulative_pause_duration = @ + pause_delta(self, clk),
                           !.paused_at = NoneDT]
         ELSE self


\* Mutant of save_transition: a resume adds the pause but keeps paused_at.
save_transition_keeps_stamp(self, now, clk) ==
    IF self.state = PAUSED
    THEN IF self.paused_at.none
         THEN [self EXCEPT !.paused_at = now]
         ELSE self
    ELSE IF ~self.paused_at.none
         THEN [self EXCEPT !.cumulative_pause_duration = @ + pause_delta(self, clk)]
         ELSE self

save_transition(self, now, clk) ==
    IF self.state = PAUSED
    THEN IF self.paused_at.none
         THEN [self EXCEPT !.paused_at = now]
         ELSE self
    ELSE IF ~self.paused_at.none
         THEN [self EXCEPT !.cumulative_pause_duration = @ + pause_delta(self, clk),
                           !.paused_at = NoneDT]
         ELSE self


\* Mutant of save_modified: only the modified end follows the pause.
save_modified_end_only(self) ==
    [self EXCEPT
        !.modified_start_at = self.original_start_at,
        !.modified_end_at = AddTD(self.original_end_at, self.cumulative_pause_duration)]

save_modified(self) ==
    [self EXCEPT
        !.modified_start_at = AddTD(self.original_start_at, self.cumulative_pause_duration),
        !.modified_end_at = AddTD(self.original_end_at, self.cumulative_pause_duration)]

save_remember(self) ==
    [self EXCEPT !.original_duration_in_minutes = self.duration_in_minutes]

save(self, clk) ==
    LET now == now_dt(self, clk)
    IN save_remember(
         save_modified(
           save_transition(
             save_initial(save_reset(self), now), now, clk)))

\* --------------------------------------------------------------- queries
aware_now_dt(tn, clk) ==
    CASE tn = "absent" -> Raise("AttributeError")
      [] tn = "raises" -> Raise("Exception")
      [] tn = "synced" -> Ok(DT(clk + TzOffset, TzOffset))
      [] tn = "skewed" -> Ok(DT(clk + TenantSkew + TzOffset, TzOffset))


\* Mutant of conditional_pause_delta: the open pause is not counted.
conditional_pause_delta_without_open_pause(self, clk) == Ok(0)

conditional_pause_delta(self, clk) ==
    IF self.state = PAUSED
    THEN IF self.paused_at.none
         THEN Raise("TypeError")
         ELSE Ok(SubDT(now_dt(self, clk), self.paused_at))
    ELSE Ok(0)


\* Mutant of remaining_time: the result is not clamped at zero.
remaining_time_unclamped(self, clk, tn) ==
    LET t == aware_now_dt(tn, clk)
        now == IF t.exc = "" THEN t.val ELSE now_dt(self, clk)
        delta == conditional_pause_delta(self, clk)
    IN IF delta.exc # "" THEN delta
       ELSE IF self.modified_end_at.none THEN Raise("TypeError")
       ELSE Ok(SubDT(AddTD(self.modified_end_at, delta.val), now))

\* Mutant of remaining_time: the end is the original one, pauses not added.
remaining_time_to_original_end(self, clk, tn) ==
    LET t == aware_now_dt(tn, clk)
        now == IF t.exc = "" THEN t.val ELSE now_dt(self, clk)
        delta == conditional_pause_delta(self, clk)
    IN IF delta.exc # "" THEN delta
       ELSE IF self.original_end_at.none THEN Raise("TypeError")
       ELSE LET end_dt == AddTD(self.original_end_at, delta.val)
            IN IF GT(now, end_dt) THEN Ok(0) ELSE Ok(SubDT(end_dt, now))

remaining_time(self, clk, tn) ==
    LET t == aware_now_dt(tn, clk)
        now == IF t.exc = "" THEN t.val ELSE now_dt(self, clk)
        delta == conditional_pause_delta(self, clk)
    IN IF delta.exc # "" THEN delta
       ELSE IF self.modified_end_at.none THEN Raise("TypeError")
       ELSE LET end_dt == AddTD(self.modified_end_at, delta.val)
            IN IF GT(now, end_dt) THEN Ok(0) ELSE Ok(SubDT(end_dt, now))

time_elapsed(self, clk) ==
    LET now == now_dt(self, clk)
        delta == conditional_pause_delta(self, clk)
    IN IF delta.exc # "" THEN delta
       ELSE IF self.original_start_at.none THEN Raise("TypeError")
       ELSE LET start_dt == AddTD(self.original_start_at, delta.val)
            IN IF GT(start_dt, now) THEN Ok(0) ELSE Ok(SubDT(now, start_dt))

time_elapsed_since_beginning(self, clk) ==
    LET now == now_dt(self, clk)
        start_dt == self.original_start_at
    IN IF start_dt.none THEN Raise("TypeError")
       ELSE IF GT(start_dt, now) THEN Ok(0) ELSE Ok(SubDT(now, start_dt))

\* Mutant of SecondsField: the whole duration in seconds (total_seconds()).
SecondsFieldTotal(td) == td

\* timedelta.seconds: the seconds field of the normalized (days, seconds) pair
SecondsField(td) == td % SecondsPerDay

\* round(x / 60) for a whole number x of seconds: Python 3 rounds a tie to even
RoundMinutes(x) ==
    LET q == x \div SecondsPerMinute
        r == x % SecondsPerMinute
    IN IF 2 * r < SecondsPerMinute THEN q
       ELSE IF 2 * r > SecondsPerMinute THEN q + 1
       ELSE IF q % 2 = 0 THEN q ELSE q + 1

Abs(x) == IF x < 0 THEN -x ELSE x

in_minutes(res) ==
    IF res.exc # "" THEN res ELSE Ok(RoundMinutes(Abs(SecondsField(res.val))))

remaining_time_in_minutes(self, clk, tn) == in_minutes(remaining_time(self, clk, tn))

time_elapsed_in_minutes(self, clk) == in_minutes(time_elapsed(self, clk))

time_elapsed_since_beginning_in_minutes(self, clk) ==
    in_minutes(time_elapsed_since_beginning(self, clk))

remaining_future_datetime(self, clk, tn) ==
    LET m == remaining_time_in_minutes(self, clk, tn)
    IN IF m.exc # "" THEN m ELSE Ok(AddTD(now_dt(self, clk), Minutes(m.val)))

\* -------------------------------------------------------------- observer
\* hist is no field of the program.  It records what a stopwatch held beside
\* the timer measures: the state and the start offset the last save() saw, the
\* instant the timer was last armed (first save or re-arm) and the start offset
\* it had then, the seconds since then during which the saved state was PAUSED,
\* and the remaining time at the last save() that opened a pause.
NoHist ==
    [saved_state |-> 0, saved_offset |-> 0, armed_at |-> 0, armed_offset |-> 0,
     paused_total |-> 0, mark_rem |-> 0]

Rearms(self) == self.duration_in_minutes # self.original_duration_in_minutes

Arms(self) == Rearms(self) \/ self.original_start_at.none

HistAfterSave(h, self, clk, tn) ==
    LET after == save(self, clk)
        opens == ~after.paused_at.none /\ (self.paused_at.none \/ Arms(self))
        rem == remaining_time(after, clk, tn)
    IN [saved_state |-> self.state,
        saved_offset |-> self.start_date_offset_in_minutes,
        armed_at |-> IF Arms(self) THEN clk ELSE h.armed_at,
        armed_offset |-> IF Arms(self) THEN self.start_date_offset_in_minutes
                         ELSE h.armed_offset,
        paused_total |-> IF Arms(self) THEN 0 ELSE h.paused_total,
        mark_rem |-> IF opens THEN rem.val
                     ELSE IF after.paused_at.none THEN 0 ELSE h.mark_rem]

\* What the observer notes about one save(): whether it was the first, a re-arm
\* or neither, whether a re-arm dropped pause time, and whether no field had
\* changed since the save() before it.
SaveNote(h, self, clk) ==
    [kind |-> IF self.original_start_at.none THEN "first"
              ELSE IF Rearms(self) THEN "rearm" ELSE "keep",
     dropped |-> /\ ~self.original_start_at.none
                 /\ Rearms(self)
                 /\ self.cumulative_pause_duration > 0
                 /\ ~self.paused_at.none
                 /\ clk > Inst(self.paused_at),
     repeated |-> ~Arms(self) /\ h.saved_state = self.state]

HistAfterTick(h, step) ==
    [h EXCEPT !.paused_total = IF h.saved_state = PAUSED THEN @ + step ELSE @]

NoNote == [kind |-> "", dropped |-> FALSE, repeated |-> FALSE]
NoCall == [op |-> "none", exc |-> "", val |-> 0, note |-> NoNote]
Called(op, res) == [op |-> op, exc |-> res.exc, val |-> res.val, note |-> NoNote]
Saved(note) == [op |-> "save", exc |-> "", val |-> 0, note |-> note]

\* ------------------------------------------------------------------ Init
\* A constructed timer that was never saved, owned by an object with no tenant
\* attribute (the abstract model declares none).
Init ==
    /\ \E d \in Durations, st \in States, o \in Offsets, tz \in Timezones :
          timer = New(d, st, o, tz)
    /\ clock = 0
    /\ tenant = "absent"
    /\ ret = NoCall
    /\ hist = NoHist

\* The same, for every kind of owning object.
InitTenant ==
    /\ \E d \in Durations, st \in States, o \in Offsets, tz \in Timezones :
          timer = New(d, st, o, tz)
    /\ clock = 0
    /\ tenant \in Tenants
    /\ ret = NoCall
    /\ hist = NoHist

\* A timer constructed and saved at instant 0, with durations of minutes, hours
\* and more than a day.
InitMinutes ==
    /\ \E d \in MinuteDurations, st \in States :
          LET new == New(d, st, 0, NoTimezone)
          IN /\ timer = save(new, 0)
             /\ hist = HistAfterSave(NoHist, new, 0, "absent")
    /\ clock = 0
    /\ tenant = "absent"
    /\ ret = Saved([kind |-> "first", dropped |-> FALSE, repeated |-> FALSE])

\* --------------------------------------------------------------- actions
Tick ==
    /\ clock + TickStep <= MaxClock
    /\ clock' = clock + TickStep
    /\ hist' = HistAfterTick(hist, TickStep)
    /\ ret' = NoCall
    /\ UNCHANGED <<timer, tenant>>

SetDuration ==
    /\ \E d \in Durations \ {timer.duration_in_minutes} :
          timer' = [timer EXCEPT !.duration_in_minutes = d]
    /\ ret' = NoCall
    /\ UNCHANGED <<clock, tenant, hist>>

SetState ==
    /\ \E st \in States \ {timer.state} :
          timer' = [timer EXCEPT !.state = st]
    /\ ret' = NoCall
    /\ UNCHANGED <<clock, tenant, hist>>

SetOffset ==
    /\ \E o \in Offsets \ {timer.start_date_offset_in_minutes} :
          timer' = [timer EXCEPT !.start_date_offset_in_minutes = o]
    /\ ret' = NoCall
    /\ UNCHANGED <<clock, tenant, hist>>

SetTimezoneOverride ==
    /\ \E tz \in Timezones \ {timer.timezone_override} :
          timer' = [timer EXCEPT !.timezone_override = tz]
    /\ ret' = NoCall
    /\ UNCHANGED <<clock, tenant, hist>>

Save ==
    /\ timer' = save(timer, clock)
    /\ hist' = HistAfterSave(hist, timer, clock, tenant)
    /\ ret' = Saved(SaveNote(hist, timer, clock))
    /\ UNCHANGED <<clock, tenant>>

RemainingTime ==
    /\ ret' = Called("remaining_time", remaining_time(timer, clock, tenant))
    /\ UNCHANGED <<timer, clock, tenant, hist>>

RemainingTimeInMinutes ==
    /\ ret' = Called("remaining_time_in_minutes",
                     remaining_time_in_minutes(timer, clock, tenant))
    /\ UNCHANGED <<timer, clock, tenant, hist>>

RemainingFutureDatetime ==
    /\ ret' = Called("remaining_future_datetime",
                     remaining_future_datetime(timer, clock, tenant))
    /\ UNCHANGED <<timer, clock, tenant, hist>>


\* Mutant of TimeElapsed: the query also recalculates the timer.
TimeElapsedAndSave ==
    /\ ret' = Called("time_elapsed", time_elapsed(timer, clock))
    /\ timer' = save(timer, clock)
    /\ UNCHANGED <<clock, tenant, hist>>

TimeElapsed ==
    /\ ret' = Called("time_elapsed", time_elapsed(timer, clock))
    /\ UNCHANGED <<timer, clock, tenant, hist>>

TimeElapsedInMinutes ==
    /\ ret' = Called("time_elapsed_in_minutes", time_elapsed_in_minutes(timer, clock))
    /\ UNCHANGED <<timer, clock, tenant, hist>>

TimeElapsedSinceBeginning ==
    /\ ret' = Called("time_elapsed_since_beginning",
                     time_elapsed_since_beginning(timer, clock))
    /\ UNCHANGED <<timer, clock, tenant, hist>>

TimeElapsedSinceBeginningInMinutes ==
    /\ ret' = Called("time_elapsed_since_beginning_in_minutes",
                     time_elapsed_since_beginning_in_minutes(timer, clock))
    /\ UNCHANGED <<timer, clock, tenant, hist>>

\* The clock of the minutes specification: seconds around the half minute,
\* then whole minutes, hours and days.
TickSeconds ==
    /\ \E s \in {1, SecondsPerMinute \div 2 - 1} :
          /\ (clock % SecondsPerMinute) + s <= SecondsPerMinute \div 2 + 1
          /\ clock' = clock + s
          /\ hist' = HistAfterTick(hist, s)
    /\ ret' = NoCall
    /\ UNCHANGED <<timer, tenant>>

TickMinute ==
    /\ (clock % (60 * SecondsPerMinute)) \div SecondsPerMinute < MaxMinuteTicks
    /\ clock' = clock + SecondsPerMinute
    /\ hist' = HistAfterTick(hist, SecondsPerMinute)
    /\ ret' = NoCall
    /\ UNCHANGED <<timer, tenant>>

TickHour ==
    /\ (clock % SecondsPerDay) \div (60 * SecondsPerMinute) < MaxHourTicks
    /\ clock' = clock + 60 * SecondsPerMinute
    /\ hist' = HistAfterTick(hist, 60 * SecondsPerMinute)
    /\ ret' = NoCall
    /\ UNCHANGED <<timer, tenant>>

TickDay ==
    /\ clock \div SecondsPerDay < MaxDayTicks
    /\ clock' = clock + SecondsPerDay
    /\ hist' = HistAfterTick(hist, SecondsPerDay)
    /\ ret' = NoCall
    /\ UNCHANGED <<timer, tenant>>

Next ==
    \/ Tick
    \/ SetDuration
    \/ SetState
    \/ SetOffset
    \/ Save
    \/ RemainingTime
    \/ RemainingTimeInMinutes
    \/ RemainingFutureDatetime
    \/ TimeElapsed
    \/ TimeElapsedInMinutes
    \/ TimeElapsedSinceBeginning
    \/ TimeElapsedSinceBeginningInMinutes

NextMinutes ==
    \/ TickSeconds
    \/ TickMinute
    \/ TickHour
    \/ TickDay
    \/ SetTimezoneOverride
    \/ RemainingTimeInMinutes
    \/ RemainingFutureDatetime
    \/ TimeElapsedInMinutes
    \/ TimeElapsedSinceBeginningInMinutes

Spec == Init /\ [][Next]_vars

SpecTenant == InitTenant /\ [][Next]_vars

SpecMinutes == InitMinutes /\ [][NextMinutes]_vars

\* ------------------------------------------------------------ properties
CurRemaining == remaining_time(timer, clock, tenant)
CurElapsed == time_elapsed(timer, clock)
CurSinceBeginning == time_elapsed_since_beginning(timer, clock)

Max0(x) == IF x > 0 THEN x ELSE 0

\* The timer has been recalculated at least once.
IsSaved == ~timer.original_start_at.none

\* No assignment to state or duration_in_minutes is waiting for a save().
Committed == hist.saved_state = timer.state /\ ~Rearms(timer)

\* The open pause interval at the built-in clock.
OpenPause == IF timer.state = PAUSED THEN clock - Inst(timer.paused_at) ELSE 0

QueryOps ==
    {"remaining_time", "remaining_time_in_minutes", "remaining_future_datetime",
     "time_elapsed", "time_elapsed_in_minutes", "time_elapsed_since_beginning",
     "time_elapsed_since_beginning_in_minutes"}

\* C1: with every change saved, time_elapsed() is the time since
\* original_start_at less all the time spent paused since the timer was armed,
\* completed pauses and the open one alike, and never below zero.
C1_ElapsedExcludesAllPauseTime ==
    (IsSaved /\ Committed) =>
        /\ CurElapsed.exc = ""
        /\ CurElapsed.val =
             Max0(clock - Inst(timer.original_start_at) - hist.paused_total)

\* C2: while a timer saved as PAUSED is left alone and only the clock moves,
\* remaining_time() and time_elapsed() keep their values and
\* time_elapsed_since_beginning() follows the clock: it never shrinks and is
\* now - original_start_at from original_start_at on.
C2_PauseFreezesCountdown ==
    [][(/\ timer.state = PAUSED
        /\ ~timer.paused_at.none
        /\ timer' = timer
        /\ clock' > clock)
       => (/\ remaining_time(timer', clock', tenant') = CurRemaining
           /\ time_elapsed(timer', clock') = CurElapsed
           /\ CurRemaining.exc = ""
           /\ CurElapsed.exc = ""
           /\ time_elapsed_since_beginning(timer', clock').exc = ""
           /\ time_elapsed_since_beginning(timer', clock').val >= CurSinceBeginning.val
           /\ (clock' >= Inst(timer.original_start_at) =>
                 time_elapsed_since_beginning(timer', clock').val
                   = clock' - Inst(timer.original_start_at)))]_vars

C2_FrozenDuringPause ==
    /\ timer.state = PAUSED
    /\ ~timer.paused_at.none
    /\ clock >= Inst(timer.paused_at) + 2 * TickStep
    /\ CurRemaining.val > 0
    /\ CurElapsed.val > 0
    /\ CurSinceBeginning.val > CurElapsed.val

\* C3: a save() that opens a pause at P leaves cumulative_pause_duration as it
\* was and stamps paused_at with P; the save() at R that ends the pause, the
\* duration unchanged, adds exactly R - P to cumulative_pause_duration, clears
\* paused_at, and leaves remaining_time() at R equal to what it was at P.
C3_PauseResumeRoundTrip ==
    [][(ret'.op = "save" /\ IsSaved /\ ~Rearms(timer))
       => (/\ (timer.state = PAUSED /\ timer.paused_at.none) =>
                 /\ Inst(timer'.paused_at) = clock
                 /\ timer'.cumulative_pause_duration = timer.cumulative_pause_duration
                 /\ hist'.mark_rem = remaining_time(timer', clock', tenant').val
           /\ (timer.state = RUNNING /\ ~timer.paused_at.none) =>
                 /\ clock >= Inst(timer.paused_at)
                 /\ timer'.cumulative_pause_duration
                      = timer.cumulative_pause_duration + (clock - Inst(timer.paused_at))
                 /\ timer'.paused_at.none
                 /\ remaining_time(timer', clock', tenant') = Ok(hist.mark_rem))]_vars

C3_ResumedAfterPause ==
    /\ ret.op = "save"
    /\ ret.note.kind = "keep"
    /\ ~ret.note.repeated
    /\ timer.state = RUNNING
    /\ timer.paused_at.none
    /\ timer.cumulative_pause_duration >= TickStep
    /\ clock - hist.armed_at > hist.paused_total
    /\ CurRemaining.val > 0

\* C4: a save() re-arms exactly when duration_in_minutes differs from the
\* remembered value.  A re-arm sets cumulative_pause_duration to zero, whatever
\* pause was open or accumulated, original_start_at to now + the offset and
\* original_end_at to that + the new duration; any other save() of a saved
\* timer keeps original_start_at and original_end_at and never lowers
\* cumulative_pause_duration.  Every save() remembers the duration it saw.
C4_Rearm ==
    [][ret'.op = "save"
       => (/\ timer'.original_duration_in_minutes = timer.duration_in_minutes
           /\ timer'.duration_in_minutes = timer.duration_in_minutes
           /\ Rearms(timer) =>
                 /\ timer'.cumulative_pause_duration = 0
                 /\ Inst(timer'.original_start_at)
                      = clock + 60 * timer.start_date_offset_in_minutes
                 /\ Inst(timer'.original_end_at)
                      = Inst(timer'.original_start_at) + 60 * timer.duration_in_minutes
                 /\ Inst(timer'.modified_end_at) = Inst(timer'.original_end_at)
                 /\ (timer.state = PAUSED => Inst(timer'.paused_at) = clock)
                 /\ (timer.state # PAUSED => timer'.paused_at.none)
           /\ (~Rearms(timer) /\ IsSaved) =>
                 /\ timer'.original_start_at = timer.original_start_at
                 /\ timer'.original_end_at = timer.original_end_at
                 /\ timer'.cumulative_pause_duration >= timer.cumulative_pause_duration)]_vars

C4_RearmedDroppingPause ==
    /\ ret.op = "save"
    /\ ret.note.kind = "rearm"
    /\ ret.note.dropped
    /\ timer.cumulative_pause_duration = 0
    /\ clock > 0

\* C5: whenever remaining_time() returns, it returns a duration that is not
\* negative, and zero once now is past modified_end_at plus the open pause.
C5_RemainingNeverNegative ==
    (IsSaved /\ CurRemaining.exc = "") =>
        /\ CurRemaining.val >= 0
        /\ (clock > Inst(timer.modified_end_at) + OpenPause => CurRemaining.val = 0)
        /\ (clock <= Inst(timer.modified_end_at) + OpenPause =>
              CurRemaining.val = Inst(timer.modified_end_at) + OpenPause - clock)

C5_PastTheEnd ==
    /\ IsSaved
    /\ ret.op = "remaining_time"
    /\ ret.exc = ""
    /\ ret.val = 0
    /\ clock >= Inst(timer.modified_end_at) + OpenPause + TickStep

\* C6: once the timer has been saved, remaining_time(), time_elapsed() and
\* time_elapsed_since_beginning() return a duration in every state, whatever
\* was assigned since and whether or not it was saved.
C6_QueriesAreTotal ==
    IsSaved =>
        /\ CurRemaining.exc = ""
        /\ CurElapsed.exc = ""
        /\ CurSinceBeginning.exc = ""

\* C7: a query leaves every field of the timer as it was, and a step that
\* changes paused_at or cumulative_pause_duration is a save().
C7_QueriesDoNotMutate ==
    [][/\ (ret'.op \in QueryOps => timer' = timer)
       /\ ((\/ timer'.paused_at # timer.paused_at
            \/ timer'.cumulative_pause_duration # timer.cumulative_pause_duration)
           => ret'.op = "save")]_vars

C7_QueriedDuringPause ==
    /\ ret.op \in QueryOps
    /\ ret.exc = ""
    /\ timer.state = PAUSED
    /\ ~timer.paused_at.none
    /\ clock > Inst(timer.paused_at)
    /\ timer.cumulative_pause_duration > 0

\* C8: a save() of a saved timer whose state and duration are those of the
\* save() before it changes no field, however far the clock has moved.
C8_SaveIsIdempotent ==
    [][(ret'.op = "save" /\ IsSaved /\ Committed) => timer' = timer]_vars

C8_SavedAgainWhilePaused ==
    /\ ret.op = "save"
    /\ ret.note.repeated
    /\ timer.state = PAUSED
    /\ clock > Inst(timer.paused_at)

\* C9: with a tenant whose aware_now_dt() returns, remaining_time(),
\* time_elapsed() and time_elapsed_since_beginning() compute with the tenant's
\* instant throughout, the open pause included; with no tenant or a failing
\* one they compute with the built-in clock; none of them raises.
TenantInstant ==
    CASE tenant = "synced" -> clock
      [] tenant = "skewed" -> clock + TenantSkew
      [] OTHER -> clock

C9_TenantClockInEveryQuery ==
    (IsSaved /\ (timer.state = PAUSED => ~timer.paused_at.none)) =>
        LET now == TenantInstant
            open == IF timer.state = PAUSED THEN now - Inst(timer.paused_at) ELSE 0
        IN /\ CurRemaining = Ok(Max0(Inst(timer.modified_end_at) + open - now))
           /\ CurElapsed = Ok(Max0(now - (Inst(timer.original_start_at) + open)))
           /\ CurSinceBeginning = Ok(Max0(now - Inst(timer.original_start_at)))

\* C10: an in-minutes query returns the whole minute nearest to the seconds
\* field of the underlying duration, that is to the duration modulo one day,
\* a tie going to the even minute.
MinuteOps ==
    {"remaining_time_in_minutes", "time_elapsed_in_minutes",
     "time_elapsed_since_beginning_in_minutes"}

Underlying(op) ==
    CASE op = "remaining_time_in_minutes" -> CurRemaining
      [] op = "time_elapsed_in_minutes" -> CurElapsed
      [] op = "time_elapsed_since_beginning_in_minutes" -> CurSinceBeginning

NearestMinute(x, m) == 2 * Abs(60 * m - x) <= 60

C10_MinutesOfSubDayRemainder ==
    (ret.op \in MinuteOps /\ ret.exc = "") =>
        LET x == Underlying(ret.op).val % (24 * 60 * 60)
        IN /\ NearestMinute(x, ret.val)
           /\ (2 * Abs(60 * ret.val - x) = 60 => ret.val % 2 = 0)

C10_LongerThanADay ==
    /\ ret.op \in MinuteOps
    /\ ret.exc = ""
    /\ Underlying(ret.op).val > 24 * 60 * 60
    /\ Underlying(ret.op).val % 60 = 30
    /\ ret.val > 60

\* C10 as first stated: the whole minute nearest to the duration modulo one
\* hour.
C10_MinutesOfSubHourRemainder ==
    (ret.op \in MinuteOps /\ ret.exc = "") =>
        NearestMinute(Underlying(ret.op).val % (60 * 60), ret.val)

\* C11: remaining_future_datetime() returns the built-in now plus the remaining
\* time rounded to the nearest whole minute, however long the remaining time.
C11_FutureDatetimeIsNowPlusRemaining ==
    (ret.op = "remaining_future_datetime" /\ ret.exc = "") =>
        LET ahead == Inst(ret.val) - clock
        IN /\ ahead % 60 = 0
           /\ NearestMinute(CurRemaining.val, ahead \div 60)

\* C12: once the timer has been saved and while no new duration_in_minutes
\* awaits a save(), original_end_at is original_start_at plus
\* duration_in_minutes.
C12_EndIsStartPlusDurationWhenSaved ==
    (IsSaved /\ ~Rearms(timer)) =>
        Inst(timer.original_end_at)
          = Inst(timer.original_start_at) + 60 * timer.duration_in_minutes

C12_RearmedWithNewDuration ==
    /\ ret.op = "save"
    /\ ret.note.kind = "rearm"
    /\ timer.duration_in_minutes = LongDuration
    /\ clock > 0

\* C12 as first stated: in every state after the first save(), whatever was
\* assigned since, original_end_at is original_start_at plus
\* duration_in_minutes.
C12_EndIsStartPlusDurationAlways ==
    IsSaved =>
        Inst(timer.original_end_at)
          = Inst(timer.original_start_at) + 60 * timer.duration_in_minutes

\* C13: in every state after the first save(), modified_start_at is
\* original_start_at plus cumulative_pause_duration, and modified_end_at is
\* original_end_at plus cumulative_pause_duration.
C13_ModifiedIsOriginalPlusPause ==
    IsSaved =>
        /\ ~timer.modified_start_at.none
        /\ ~timer.modified_end_at.none
        /\ Inst(timer.modified_start_at)
             = Inst(timer.original_start_at) + timer.cumulative_pause_duration
        /\ Inst(timer.modified_end_at)
             = Inst(timer.original_end_at) + timer.cumulative_pause_duration

C13_ShiftedByCompletedPause ==
    /\ IsSaved
    /\ timer.cumulative_pause_duration >= TickStep
    /\ Inst(timer.modified_start_at) > Inst(timer.original_start_at)
    /\ timer.state = PAUSED
    /\ ~timer.paused_at.none

\* C14: right after every save() paused_at is set exactly when state is
\* PAUSED; and a save() that finds the timer PAUSED with paused_at set, with no
\* new duration, leaves paused_at as it was.
C14_PausedAtFollowsState ==
    [][ret'.op = "save" =>
          /\ ~timer'.paused_at.none <=> timer'.state = PAUSED
          /\ (timer.state = PAUSED /\ ~timer.paused_at.none /\ ~Rearms(timer))
                => timer'.paused_at = timer.paused_at]_vars

C14_SecondPauseKeptItsStamp ==
    /\ ret.op = "save"
    /\ ret.note.kind = "keep"
    /\ timer.state = PAUSED
    /\ timer.cumulative_pause_duration > 0
    /\ ~timer.paused_at.none
    /\ Inst(timer.paused_at) + TickStep <= clock
    /\ Inst(timer.paused_at) > hist.armed_at

\* C15: cumulative_pause_duration is never negative, and no step decreases it
\* except a save() with a new duration, which makes it zero.
C15_PauseOnlyGrowsBetweenRearms ==
    [][/\ timer'.cumulative_pause_duration >= 0
       /\ timer'.cumulative_pause_duration < timer.cumulative_pause_duration
            => /\ ret'.op = "save"
               /\ Rearms(timer)
               /\ timer'.cumulative_pause_duration = 0]_vars

C15_TwoPausesAccumulated ==
    /\ ret.op = "save"
    /\ ret.note.kind = "keep"
    /\ timer.state = RUNNING
    /\ timer.cumulative_pause_duration >= 2 * TickStep
    /\ timer.cumulative_pause_duration = hist.paused_total

\* C16: a save() of a saved timer whose duration_in_minutes is the remembered
\* one leaves original_start_at and original_end_at unchanged, whatever change
\* of state or of start_date_offset_in_minutes comes with it.
C16_OriginalFrozenBetweenRearms ==
    [][(ret'.op = "save" /\ IsSaved /\ ~Rearms(timer)) =>
          /\ timer'.original_start_at = timer.original_start_at
          /\ timer'.original_end_at = timer.original_end_at]_vars

C16_SavedWithNewOffset ==
    /\ ret.op = "save"
    /\ ret.note.kind = "keep"
    /\ clock > hist.armed_at
    /\ Inst(timer.original_start_at)
         # hist.armed_at + 60 * timer.start_date_offset_in_minutes

\* C17: the first save() of a timer sets original_start_at to the instant of
\* the save plus the start offset and original_end_at to that plus the
\* duration; a PAUSED timer gets paused_at at the instant of the save and a
\* cumulative_pause_duration of zero.
C17_FirstSaveInitializes ==
    [][(ret'.op = "save" /\ ~IsSaved) =>
          /\ ~timer'.original_start_at.none
          /\ Inst(timer'.original_start_at)
               = clock + 60 * timer.start_date_offset_in_minutes
          /\ Inst(timer'.original_end_at)
               = Inst(timer'.original_start_at) + 60 * timer.duration_in_minutes
          /\ timer.state = PAUSED
               => /\ ~timer'.paused_at.none
                  /\ Inst(timer'.paused_at) = clock
                  /\ timer'.cumulative_pause_duration = 0]_vars

C17_FirstSavePausedWithOffset ==
    /\ ret.op = "save"
    /\ ret.note.kind = "first"
    /\ timer.state = PAUSED
    /\ timer.start_date_offset_in_minutes = OffsetMinutes
    /\ timer.duration_in_minutes = LongDuration
    /\ clock > 0
    /\ Inst(timer.paused_at) = clock

\* The seconds since the last arming during which the saved state was RUNNING.
RunningSinceArmed == clock - hist.armed_at - hist.paused_total

\* No field that save() reads has been assigned since the last save().
AllCommitted ==
    Committed /\ hist.saved_offset = timer.start_date_offset_in_minutes

\* C18: with no field change awaiting a save(), remaining_time() is
\* max(0, duration_in_minutes + the start offset the timer was armed with - W),
\* W the time since the last arming during which the saved state was RUNNING;
\* so it never exceeds the duration plus that offset.
C18_StopwatchWithArmedOffset ==
    (IsSaved /\ AllCommitted) =>
        /\ CurRemaining
             = Ok(Max0(60 * (timer.duration_in_minutes + hist.armed_offset)
                         - RunningSinceArmed))
        /\ CurRemaining.val
             <= 60 * (timer.duration_in_minutes + hist.armed_offset)

C18_RanPausedRanAgain ==
    /\ IsSaved
    /\ AllCommitted
    /\ timer.state = RUNNING
    /\ hist.paused_total >= TickStep
    /\ RunningSinceArmed >= 2 * TickStep
    /\ hist.armed_offset = OffsetMinutes
    /\ CurRemaining.val > 0

\* C18 as first stated: the same with the current start_date_offset_in_minutes
\* in place of the offset the timer was armed with.
C18_StopwatchWithCurrentOffset ==
    (IsSaved /\ AllCommitted) =>
        /\ CurRemaining
             = Ok(Max0(60 * (timer.duration_in_minutes
                               + timer.start_date_offset_in_minutes)
                         - RunningSinceArmed))
        /\ CurRemaining.val
             <= 60 * (timer.duration_in_minutes + timer.start_date_offset_in_minutes)

\* C19: once remaining_time() of a saved timer is zero it is zero after every
\* later step that leaves duration_in_minutes as it is: pause, resume, save()
\* and clock advance never bring it back above zero, nor make the call fail.
C19_ExpiryIsPermanent ==
    [][(/\ IsSaved
        /\ ~Rearms(timer)
        /\ CurRemaining = Ok(0)
        /\ timer'.duration_in_minutes = timer.duration_in_minutes)
          => remaining_time(timer', clock', tenant') = Ok(0)]_vars

====
